---- MODULE Spec2Model ----
(***************************************************************************)
(* The tmux control-mode domain of src/mux/tmux.rs: the byte-to-line       *)
(* decoder and protocol state of TmuxDomain::advance, the deferred command *)
(* of TmuxDomain::send_command, and the Domain trait surface; and the X11   *)
(* window of window/src/os/x11/window.rs: Rect, the exposure queue, paint() *)
(* and the events of dispatch_event.                                        *)
(*                                                                         *)
(* Bytes are integers 0..255 and a decoded line is a sequence of code      *)
(* points.  One controller is embedded in one tab; the bytes its remote    *)
(* tmux sends are the tab's output stream, fed to advance() one at a time. *)
(***************************************************************************)
EXTENDS Integers, Sequences, FiniteSets, TLC

\* ------------------------------------------------------------------ bounds
\* Number of tabs of the registry (a tab embeds at most one controller).
MaxTabs == 2
\* Longest free byte sequence over RawBytes a remote sends.
MaxBytes == 4
\* Most protocol lines a remote sends in a line-structured stream.
MaxLines == 2
\* Most bytes the tab's reader hands to the controller in one chunk.
MaxChunk == 3
\* Longest exposure queue of the window.
MaxQueue == 2
\* Largest coordinate of the rectangles Rect's functions are applied to.
MaxCoord == 3

\* ------------------------------------------------------- program constants
\* b'\n'
LF == 10
\* b'\r'
CR == 13
\* U+FFFD, what String::from_utf8_lossy puts for an invalid sequence
REPLACEMENT == 65533
\* the number of values of a u16, the type of a Rect's fields
U16 == 65536
\* "%end "
EndPrefix == <<37, 101, 110, 100, 32>>
\* the command text of the interrogation
ListWindows == "list-windows -F '#{session_name}\t#{window_id}\t#{window_width}\t#{window_height}'"

Tabs == 1..MaxTabs

\* ---------------------------------------------------------------- inputs
\* "%end 1 0 0"
TokEnd100 == <<37, 101, 110, 100, 32, 49, 32, 48, 32, 48>>
\* "%end 1 1 0"
TokEnd110 == <<37, 101, 110, 100, 32, 49, 32, 49, 32, 48>>
\* "%end" with no space after it: not the marker
TokEndBare == <<37, 101, 110, 100>>
\* "%begin 1 1 0"
TokBegin110 == <<37, 98, 101, 103, 105, 110, 32, 49, 32, 49, 32, 48>>
\* "ok"
TokOk == <<111, 107>>
\* "%error 1 1 0"
TokError110 == <<37, 101, 114, 114, 111, 114, 32, 49, 32, 49, 32, 48>>
\* "abc"
TokAbc == <<97, 98, 99>>
\* "e-acute" in UTF-8, and its lead byte alone
TokEAcute == <<195, 169>>
TokLeadOnly == <<195>>

Tokens == {TokEnd100, TokEndBare, TokBegin110, TokError110, TokOk, <<>>}

Terminators == {<<LF>>, <<CR, LF>>}

\* 'a', the line ends, and 0xFF, which no UTF-8 text holds
RawBytes == {97, CR, LF, 255}

SeqsUpTo(S, n) == UNION {[1..k -> S] : k \in 0..n}

RECURSIVE LineStreams(_)
LineStreams(n) ==
    IF n = 0 THEN {<<>>}
    ELSE LET prev == LineStreams(n - 1)
         IN  prev \cup {p \o tok \o term : p \in prev, tok \in Tokens, term \in Terminators}

\* "%end 1 0 0\n" then "%begin 1 1 0\r\nok\r\n%end 1 1 0\r\n"
ReplyScenario ==
    TokEnd100 \o <<LF>> \o TokBegin110 \o <<CR, LF>> \o TokOk \o <<CR, LF>>
              \o TokEnd110 \o <<CR, LF>>

\* "%end 1 0 0\n", 0xFF "a" "\r\n", "%error 1 1 0\n", "%end 1 1 0\n"
LossyScenario ==
    TokEnd100 \o <<LF>> \o <<255, 97, CR, LF>> \o TokError110 \o <<LF>>
              \o TokEnd110 \o <<LF>>

\* "%begin 1 2 0", "%end 1 2 0", and the listing line "sess\tw1\t80\t24"
TokBegin120 == <<37, 98, 101, 103, 105, 110, 32, 49, 32, 50, 32, 48>>
TokEnd120 == <<37, 101, 110, 100, 32, 49, 32, 50, 32, 48>>
TokListingW1 == <<115, 101, 115, 115, 9, 119, 49, 9, 56, 48, 9, 50, 52>>
\* "w1", the remote window id of that line
TokW1 == <<119, 49>>

\* the first reply, then a listing reply with one window
ListingOne ==
    TokEnd100 \o <<LF>> \o TokBegin110 \o <<LF>> \o TokListingW1 \o <<LF>>
              \o TokEnd110 \o <<LF>>

\* ... then a listing reply with no window
ListingScenario == ListingOne \o TokBegin120 \o <<LF>> \o TokEnd120 \o <<LF>>

Scenarios ==
    { ReplyScenario,
      LossyScenario,
      ListingScenario,
      TokAbc \o <<CR, LF>>,
      TokAbc \o <<CR, CR, LF>>,
      TokEAcute \o <<LF>>,
      TokLeadOnly \o <<97, LF>> }

\* The streams a remote tmux sends in the protocol specification.
Inputs == SeqsUpTo(RawBytes, MaxBytes) \cup LineStreams(MaxLines) \cup Scenarios

\* The streams a remote tmux sends in the chunking specification.
ChunkInputs == SeqsUpTo(RawBytes, MaxBytes) \cup Scenarios

\* The stream the remote sends in the system specification: the first
\* reply's end marker, twice ("%end \r\n%end \n").
Handshake == EndPrefix \o <<CR, LF>> \o EndPrefix \o <<LF>>

\* ----------------------------------------------------------------- state
VARIABLES
    next_domain_id,  \* the process-wide counter behind alloc_domain_id()
    domains,         \* embedding tab -> the TmuxDomain constructed for it
    tab_output,      \* tab -> bytes its remote has sent that advance() has not seen
    fed,             \* tab -> bytes advance() was called with, in order
    lines,           \* tab -> the decoded lines advance() logged, in order
    blocks,          \* tab -> the reply blocks advance() handed downstream
    proxies,         \* tab -> the remote window ids that have a local proxy
    chunk,           \* tab -> size of the last chunk its reader fed (0: none yet)
    scheduled,       \* tab -> number of send_command() calls of its controller
    queue,           \* the main-thread executor's FIFO of deferred commands
    writes,          \* tab -> the commands written to the tab's writer
    mux,             \* the registry: Mux::get() and the tabs it resolves
    panicked,        \* the main thread has panicked in a deferred command
    ret,             \* the last Domain trait call and what it returned
    window,          \* the WindowInner, or NoWindow before new_window
    conn_windows,    \* conn.windows: the ids of the registered windows
    destroy_requested, \* xcb::destroy_window has been called for the window
    destroy_calls,   \* number of calls of the destroy callback
    painted,         \* what the last step's paint() painted, in order
    wevent,          \* the last operation on the window and its inputs
    rects,           \* the pair of rectangles Rect's functions are applied to
    hit              \* what intersects_with returned for them, both ways

tmux_vars == <<next_domain_id, domains, tab_output, fed, lines, blocks, proxies,
               chunk, scheduled, queue, writes, mux, panicked, ret>>

window_vars == <<window, conn_windows, destroy_requested, destroy_calls, painted,
                 wevent, rects, hit>>

vars == <<tmux_vars, window_vars>>

NoCall == [op |-> "none", tab |-> 0, res |-> "none", id |-> -1]

NoWindow == [created |-> FALSE]

NoEvent == [op |-> "none"]

\* No window has been created and Rect's functions have not been applied.
NoWindowYet ==
    /\ window = NoWindow
    /\ conn_windows = {}
    /\ destroy_requested = FALSE
    /\ destroy_calls = 0
    /\ painted = <<>>
    /\ wevent = NoEvent
    /\ rects = <<>>
    /\ hit = [op |-> "none"]

\* ------------------------------------------------------- pure functions
Last(s) == s[Len(s)]

Front(s) == SubSeq(s, 1, Len(s) - 1)

\* str::starts_with
starts_with(line, prefix) ==
    /\ Len(line) >= Len(prefix)
    /\ SubSeq(line, 1, Len(prefix)) = prefix

\* (variant: the bytes are taken as code points unchecked)
from_utf8_unchecked(bytes) == bytes

\* String::from_utf8_lossy on the modelled bytes: ASCII is itself, a two-byte
\* sequence (lead 0xC2..0xDF, continuation 0x80..0xBF) is its code point, and
\* any other byte is one U+FFFD.  (Leads 0xE0..0xF4 are not in any input.)
RECURSIVE from_utf8_lossy(_)
from_utf8_lossy(bytes) ==
    IF bytes = <<>> THEN <<>>
    ELSE LET b == Head(bytes)
         IN  IF b < 128
               THEN <<b>> \o from_utf8_lossy(Tail(bytes))
             ELSE IF b \in 194..223 /\ Len(bytes) >= 2 /\ bytes[2] \in 128..191
               THEN <<(b - 192) * 64 + (bytes[2] - 128)>>
                    \o from_utf8_lossy(SubSeq(bytes, 3, Len(bytes)))
             ELSE <<REPLACEMENT>> \o from_utf8_lossy(Tail(bytes))

\* (variant: every trailing carriage-return is popped)
strip_cr_all(buf) ==
    LET keep == {n \in 0..Len(buf) : \A i \in (n + 1)..Len(buf) : buf[i] = CR}
    IN  SubSeq(buf, 1, CHOOSE n \in keep : \A m \in keep : n <= m)

\* if line_buffer.last() == Some(&b'\r') { line_buffer.pop(); }
strip_cr(buf) ==
    IF buf # <<>> /\ Last(buf) = CR THEN Front(buf) ELSE buf

\* (variant: the protocol state is not looked at)
first_reply_any_state(st, line) == starts_with(line, EndPrefix)

\* (variant: any notification line counts as the first reply)
first_reply_any_marker(st, line) ==
    st = "WaitingForFirstResponse" /\ starts_with(line, <<37>>)

\* the condition of the if at the completed line
first_reply(st, line) ==
    st = "WaitingForFirstResponse" /\ starts_with(line, EndPrefix)

\* (variant: an end marker while Running goes back to waiting)
state_toggle(st, line) ==
    IF starts_with(line, EndPrefix)
    THEN (IF st = "WaitingForFirstResponse" THEN "Running" ELSE "WaitingForFirstResponse")
    ELSE st

\* the ProtocolState after a completed line
state_after(st, line) ==
    IF first_reply(st, line) THEN "Running" ELSE st

\* (variant: the line-feed is pushed like any byte and nothing is cleared)
buffer_never_cleared(buf, c) == Append(buf, c)

\* the line buffer after a byte: cleared by a line-feed, else the byte pushed
buffer_after(buf, c) ==
    IF c = LF THEN <<>> ELSE Append(buf, c)

\* (variant: the allocated id is not stored)
new_fixed_id(id, embedding_tab_id) ==
    [id |-> 0,
     embedding_tab_id |-> embedding_tab_id,
     line_buffer |-> <<>>,
     state |-> "WaitingForFirstResponse"]

\* TmuxDomain::new
new(id, embedding_tab_id) ==
    [id |-> id,
     embedding_tab_id |-> embedding_tab_id,
     line_buffer |-> <<>>,
     state |-> "WaitingForFirstResponse"]

\* (variant: a blank line is not reported)
advance_skips_blank(self, c) ==
    IF c = LF
    THEN LET line == from_utf8_lossy(strip_cr(self.line_buffer))
         IN  [self |-> [self EXCEPT !.state = state_after(self.state, line),
                                    !.line_buffer = buffer_after(self.line_buffer, c)],
              logged |-> IF line = <<>> THEN <<>> ELSE <<line>>,
              sent |-> IF first_reply(self.state, line) THEN <<ListWindows>> ELSE <<>>,
              blocks |-> <<>>,
              proxies_created |-> {},
              proxies_removed |-> {}]
    ELSE [self |-> [self EXCEPT !.line_buffer = buffer_after(self.line_buffer, c)],
          logged |-> <<>>,
          sent |-> <<>>,
          blocks |-> <<>>,
          proxies_created |-> {},
          proxies_removed |-> {}]

\* TmuxDomain::advance as a function of the controller and the byte: the
\* controller afterwards, the lines logged, the commands handed to
\* send_command, the reply blocks handed downstream and the local proxies
\* created and torn down.  A completed line is logged and dropped: no
\* %begin/%end block is built from it and no window is connected to the local
\* Mux (both are TODOs of the file's header), so no block is ever handed on
\* and no proxy is ever created or removed.
advance(self, c) ==
    IF c = LF
    THEN LET line == from_utf8_lossy(strip_cr(self.line_buffer))
         IN  [self |-> [self EXCEPT !.state = state_after(self.state, line),
                                    !.line_buffer = buffer_after(self.line_buffer, c)],
              logged |-> <<line>>,
              sent |-> IF first_reply(self.state, line) THEN <<ListWindows>> ELSE <<>>,
              blocks |-> <<>>,
              proxies_created |-> {},
              proxies_removed |-> {}]
    ELSE [self |-> [self EXCEPT !.line_buffer = buffer_after(self.line_buffer, c)],
          logged |-> <<>>,
          sent |-> <<>>,
          blocks |-> <<>>,
          proxies_created |-> {},
          proxies_removed |-> {}]

\* The tab's reader hands a chunk to the controller: advance() on each of its
\* bytes in order; what the calls logged, sent and handed on, concatenated.
RECURSIVE advance_all(_, _)
advance_all(self, bytes) ==
    IF bytes = <<>>
    THEN [self |-> self, logged |-> <<>>, sent |-> <<>>, blocks |-> <<>>,
          proxies_created |-> {}, proxies_removed |-> {}]
    ELSE LET r == advance(self, Head(bytes))
             rest == advance_all(r.self, Tail(bytes))
         IN  [self |-> rest.self,
              logged |-> r.logged \o rest.logged,
              sent |-> r.sent \o rest.sent,
              blocks |-> r.blocks \o rest.blocks,
              proxies_created |-> (r.proxies_created \ rest.proxies_removed)
                                      \cup rest.proxies_created,
              proxies_removed |-> (r.proxies_removed \ rest.proxies_created)
                                      \cup rest.proxies_removed]

\* alloc_domain_id(): the id handed out and the counter afterwards
alloc_domain_id(counter) == [id |-> counter, next |-> counter + 1]

\* spawn_into_main_thread: the task joins the executor's FIFO and the caller
\* goes on
spawn_into_main_thread(q, task) == Append(q, task)

\* (variant: the command is written at once, inside the caller)
send_command_inline(self, cmd, q, w) ==
    [queue |-> q,
     writes |-> [w EXCEPT ![self.embedding_tab_id] = Append(@, cmd)]]

\* TmuxDomain::send_command: the executor's queue and the tabs' writers after
\* the call
send_command(self, cmd, q, w) ==
    [queue |-> spawn_into_main_thread(q, [tab_id |-> self.embedding_tab_id, cmd |-> cmd]),
     writes |-> w]

\* The deferred command's body: what the two expect()s and the write come to
\* with the registry as it is when the command runs.
command_outcome(task, m) ==
    IF ~m.alive THEN "panic: tmux processing to be on main thread"
    ELSE IF task.tab_id \notin m.tabs THEN "panic: tmux tab to exist"
    ELSE "write"

\* (variant: spawn succeeds and resets the decoder)
spawn_succeeds(self) ==
    [res |-> "Ok", self |-> [self EXCEPT !.line_buffer = <<>>]]

\* impl Domain for TmuxDomain: each call's result and the controller after it
spawn(self) == [res |-> "Err: spawn not impl for TmuxDomain", self |-> self]

domain_id(self) == self.id

domain_name(self) == "tmux"

attach(self) == [res |-> "Ok", self |-> self]

detach(self) == [res |-> "Err: detach not impl for TmuxDomain", self |-> self]

\* (variant: Attached only once the first reply has arrived)
state_by_protocol(self) ==
    IF self.state = "Running" THEN "Attached" ELSE "Detached"

state(self) == "Attached"

\* --------------------------------------------------------------- actions
Constructed == DOMAIN domains

\* TmuxDomain::new(t): tab t enters tmux mode and constructs its controller.
New(t) ==
    /\ ~panicked
    /\ t \notin Constructed
    /\ LET a == alloc_domain_id(next_domain_id)
       IN  /\ next_domain_id' = a.next
           /\ domains' = [u \in Constructed \cup {t} |->
                            IF u = t THEN new(a.id, t) ELSE domains[u]]
    /\ ret' = NoCall
    /\ UNCHANGED window_vars
    /\ UNCHANGED <<tab_output, fed, lines, blocks, proxies, chunk, scheduled, queue,
                   writes, mux, panicked>>

\* advance(c) with the next byte of tab t's remote.
Advance(t) ==
    /\ ~panicked
    /\ t \in Constructed
    /\ tab_output[t] # <<>>
    /\ LET c == Head(tab_output[t])
           r == advance(domains[t], c)
           s == IF r.sent = <<>>
                THEN [queue |-> queue, writes |-> writes]
                ELSE send_command(r.self, r.sent[1], queue, writes)
       IN  /\ domains' = [domains EXCEPT ![t] = r.self]
           /\ tab_output' = [tab_output EXCEPT ![t] = Tail(@)]
           /\ fed' = [fed EXCEPT ![t] = Append(@, c)]
           /\ lines' = [lines EXCEPT ![t] = @ \o r.logged]
           /\ blocks' = [blocks EXCEPT ![t] = @ \o r.blocks]
           /\ proxies' = [proxies EXCEPT ![t] = (@ \cup r.proxies_created)
                                                  \ r.proxies_removed]
           /\ chunk' = [chunk EXCEPT ![t] = 1]
           /\ scheduled' = [scheduled EXCEPT ![t] = @ + Len(r.sent)]
           /\ queue' = s.queue
           /\ writes' = s.writes
    /\ ret' = NoCall
    /\ UNCHANGED window_vars
    /\ UNCHANGED <<next_domain_id, mux, panicked>>

\* send_command for each command of a chunk, in order
RECURSIVE send_all(_, _, _, _)
send_all(self, cmds, q, w) ==
    IF cmds = <<>> THEN [queue |-> q, writes |-> w]
    ELSE LET s == send_command(self, Head(cmds), q, w)
         IN  send_all(self, Tail(cmds), s.queue, s.writes)

\* The reader of tab t hands the controller the next n bytes of the remote in
\* one chunk.
AdvanceChunk(t, n) ==
    /\ ~panicked
    /\ t \in Constructed
    /\ n \in 1..Len(tab_output[t])
    /\ LET bytes == SubSeq(tab_output[t], 1, n)
           r == advance_all(domains[t], bytes)
           s == send_all(r.self, r.sent, queue, writes)
       IN  /\ domains' = [domains EXCEPT ![t] = r.self]
           /\ tab_output' = [tab_output EXCEPT ![t] = SubSeq(@, n + 1, Len(@))]
           /\ fed' = [fed EXCEPT ![t] = @ \o bytes]
           /\ lines' = [lines EXCEPT ![t] = @ \o r.logged]
           /\ blocks' = [blocks EXCEPT ![t] = @ \o r.blocks]
           /\ proxies' = [proxies EXCEPT ![t] = (@ \cup r.proxies_created)
                                                  \ r.proxies_removed]
           /\ chunk' = [chunk EXCEPT ![t] = n]
           /\ scheduled' = [scheduled EXCEPT ![t] = @ + Len(r.sent)]
           /\ queue' = s.queue
           /\ writes' = s.writes
    /\ ret' = NoCall
    /\ UNCHANGED window_vars
    /\ UNCHANGED <<next_domain_id, mux, panicked>>

\* The main thread runs the oldest deferred command.  A failed expect()
\* panics the main thread; a write error is discarded by .ok().
RunTask ==
    /\ ~panicked
    /\ queue # <<>>
    /\ LET task == Head(queue)
           outcome == command_outcome(task, mux)
       IN  /\ queue' = Tail(queue)
           /\ panicked' = (outcome # "write")
           /\ \E written \in BOOLEAN :
                writes' = IF outcome = "write" /\ written
                          THEN [writes EXCEPT ![task.tab_id] = Append(@, task.cmd)]
                          ELSE writes
    /\ ret' = NoCall
    /\ UNCHANGED window_vars
    /\ UNCHANGED <<next_domain_id, domains, tab_output, fed, lines, blocks,
                   proxies, chunk, scheduled, mux>>

\* The registry drops tab t (the embedding tab is closed).
CloseTab(t) ==
    /\ ~panicked
    /\ mux.alive
    /\ t \in mux.tabs
    /\ mux' = [mux EXCEPT !.tabs = @ \ {t}]
    /\ ret' = NoCall
    /\ UNCHANGED window_vars
    /\ UNCHANGED <<next_domain_id, domains, tab_output, fed, lines, blocks,
                   proxies, chunk, scheduled, queue, writes, panicked>>

\* The registry itself goes away: Mux::get() returns None from here on.
MuxShutdown ==
    /\ ~panicked
    /\ mux.alive
    /\ mux' = [alive |-> FALSE, tabs |-> {}]
    /\ ret' = NoCall
    /\ UNCHANGED window_vars
    /\ UNCHANGED <<next_domain_id, domains, tab_output, fed, lines, blocks,
                   proxies, chunk, scheduled, queue, writes, panicked>>

Unrelated == <<next_domain_id, tab_output, fed, lines, blocks, proxies, chunk,
               scheduled, queue, writes, mux, panicked>>

Spawn(t) ==
    /\ ~panicked
    /\ t \in Constructed
    /\ LET r == spawn(domains[t])
       IN  /\ domains' = [domains EXCEPT ![t] = r.self]
           /\ ret' = [op |-> "spawn", tab |-> t, res |-> r.res, id |-> -1]
    /\ UNCHANGED Unrelated
    /\ UNCHANGED window_vars

Attach(t) ==
    /\ ~panicked
    /\ t \in Constructed
    /\ LET r == attach(domains[t])
       IN  /\ domains' = [domains EXCEPT ![t] = r.self]
           /\ ret' = [op |-> "attach", tab |-> t, res |-> r.res, id |-> -1]
    /\ UNCHANGED Unrelated
    /\ UNCHANGED window_vars

Detach(t) ==
    /\ ~panicked
    /\ t \in Constructed
    /\ LET r == detach(domains[t])
       IN  /\ domains' = [domains EXCEPT ![t] = r.self]
           /\ ret' = [op |-> "detach", tab |-> t, res |-> r.res, id |-> -1]
    /\ UNCHANGED Unrelated
    /\ UNCHANGED window_vars

State(t) ==
    /\ ~panicked
    /\ t \in Constructed
    /\ ret' = [op |-> "state", tab |-> t, res |-> state(domains[t]), id |-> -1]
    /\ UNCHANGED domains
    /\ UNCHANGED Unrelated
    /\ UNCHANGED window_vars

DomainId(t) ==
    /\ ~panicked
    /\ t \in Constructed
    /\ ret' = [op |-> "domain_id", tab |-> t, res |-> "DomainId", id |-> domain_id(domains[t])]
    /\ UNCHANGED domains
    /\ UNCHANGED Unrelated
    /\ UNCHANGED window_vars

DomainName(t) ==
    /\ ~panicked
    /\ t \in Constructed
    /\ ret' = [op |-> "domain_name", tab |-> t, res |-> domain_name(domains[t]), id |-> -1]
    /\ UNCHANGED domains
    /\ UNCHANGED Unrelated
    /\ UNCHANGED window_vars

\* -------------------------------------------------------- specifications
InitState ==
    /\ next_domain_id = 0
    /\ domains = <<>>
    /\ fed = [t \in Tabs |-> <<>>]
    /\ lines = [t \in Tabs |-> <<>>]
    /\ blocks = [t \in Tabs |-> <<>>]
    /\ proxies = [t \in Tabs |-> {}]
    /\ chunk = [t \in Tabs |-> 0]
    /\ scheduled = [t \in Tabs |-> 0]
    /\ queue = <<>>
    /\ writes = [t \in Tabs |-> <<>>]
    /\ mux = [alive |-> TRUE, tabs |-> Tabs]
    /\ panicked = FALSE
    /\ ret = NoCall

\* The system: one tab's remote sends the handshake; controllers, the
\* executor, the registry and the Domain trait's callers all run.
Init ==
    /\ InitState
    /\ NoWindowYet
    /\ \E t \in Tabs :
         tab_output = [u \in Tabs |-> IF u = t THEN Handshake ELSE <<>>]

Next ==
    \/ \E t \in Tabs : New(t)
    \/ \E t \in Tabs : Advance(t)
    \/ RunTask
    \/ \E t \in Tabs : CloseTab(t)
    \/ MuxShutdown
    \/ \E t \in Tabs : Spawn(t)
    \/ \E t \in Tabs : Attach(t)
    \/ \E t \in Tabs : Detach(t)
    \/ \E t \in Tabs : State(t)
    \/ \E t \in Tabs : DomainId(t)
    \/ \E t \in Tabs : DomainName(t)

Spec == Init /\ [][Next]_vars

\* The protocol: one tab's remote sends any stream of Inputs; that tab (and
\* no silent one) enters tmux mode, its controller decodes the stream and the
\* executor runs what it schedules.
InitProtocol ==
    /\ InitState
    /\ NoWindowYet
    /\ \E t \in Tabs, i \in Inputs :
         tab_output = [u \in Tabs |-> IF u = t THEN i ELSE <<>>]

NextProtocol ==
    \/ \E t \in Tabs : tab_output[t] # <<>> /\ New(t)
    \/ \E t \in Tabs : Advance(t)
    \/ RunTask

SpecProtocol == InitProtocol /\ [][NextProtocol]_vars

\* Chunked delivery: one tab's remote sends a stream of ChunkInputs and the
\* tab's reader hands it to the controller in chunks of any sizes up to
\* MaxChunk.
InitChunks ==
    /\ InitState
    /\ NoWindowYet
    /\ \E t \in Tabs, i \in ChunkInputs :
         tab_output = [u \in Tabs |-> IF u = t THEN i ELSE <<>>]

NextChunks ==
    \/ \E t \in Tabs : tab_output[t] # <<>> /\ New(t)
    \/ \E t \in Tabs, n \in 1..MaxChunk : AdvanceChunk(t, n)
    \/ RunTask

SpecChunks == InitChunks /\ [][NextChunks]_vars

\* ------------------------------------------------------- the X11 window
\* struct Rect
Rect(x, y, width, height) == [x |-> x, y |-> y, width |-> width, height |-> height]

\* the exposures the X server sends in the window specification
RectA == Rect(0, 0, 1, 1)
RectB == Rect(2, 0, 1, 1)
RectC == Rect(2, 1, 1, 1)
RectF == Rect(0, 2, 1, 1)

ExposeRects == {RectA, RectB, RectC, RectF}

\* the sizes a window is created with or configured to: <<width, height>>
WindowSizes == {<<3, 3>>, <<1, 3>>, <<2, 2>>}

\* the atoms a CLIENT_MESSAGE carries
Atoms == {"WM_DELETE_WINDOW", "_NET_WM_PING"}

\* every rectangle with corners in 0..MaxCoord and positive width and height
GridRects ==
    {r \in [x : 0..MaxCoord, y : 0..MaxCoord,
            width : 1..MaxCoord, height : 1..MaxCoord] :
       r.x + r.width <= MaxCoord /\ r.y + r.height <= MaxCoord}

Min(a, b) == IF a <= b THEN a ELSE b

Max(a, b) == IF a >= b THEN a ELSE b

\* fn value_in_range
value_in_range(value, min, max) == value >= min /\ value <= max

\* Rect::right and Rect::bottom, in u16
right(self) == (self.x + self.width) % U16

bottom(self) == (self.y + self.height) % U16

\* Rect::enclosing_boundary_with
enclosing_boundary_with(self, other) ==
    LET left == Min(self.x, other.x)
        rgt == Max(right(self), right(other))
        top == Min(self.y, other.y)
        bot == Max(bottom(self), bottom(other))
    IN  Rect(left, top, (rgt - left) % U16, (bot - top) % U16)

\* Rect::intersects_with; the second test of y_overlaps has self.x for its
\* lower end, as the source has
intersects_with(self, other) ==
    LET x_overlaps == \/ value_in_range(self.x, other.x, right(other))
                      \/ value_in_range(other.x, self.x, right(self))
        y_overlaps == \/ value_in_range(self.y, other.y, bottom(other))
                      \/ value_in_range(other.y, self.x, bottom(self))
    IN  x_overlaps /\ y_overlaps

\* BufferImage::new and image_dimensions: a buffer is its dimensions
BufferImage_new(width, height) == [width |-> width, height |-> height]

\* (variant: the buffer the window has is kept whatever its size)
buffer_kept(self) == self.buffer_image

\* the buffer paint() draws into: a new one if the window's size is not the
\* buffer's
buffer_for_paint(self) ==
    IF self.buffer_image.width # self.width \/ self.buffer_image.height # self.height
    THEN BufferImage_new(self.width, self.height)
    ELSE self.buffer_image

\* the rectangle paint() copies for a queued one: width and height are
\* lowered to the window's, x and y are taken as they are
clip(rect, self) ==
    Rect(rect.x, rect.y, Min(rect.width, self.width), Min(rect.height, self.height))

\* (variant: the queue is painted but not drained)
paint_keeps_queue(self) ==
    LET window_dimensions == Rect(0, 0, self.width, self.height)
        q == IF self.paint_all THEN <<window_dimensions>> ELSE self.expose
    IN  IF ~self.paint_all /\ self.expose = <<>>
        THEN [self |-> self, painted |-> <<>>]
        ELSE [self |-> [self EXCEPT !.paint_all = FALSE,
                                    !.expose = q,
                                    !.buffer_image = buffer_for_paint(self)],
              painted |-> [i \in 1..Len(q) |->
                             [rect |-> clip(q[i], self),
                              buffer |-> buffer_for_paint(self)]]]

\* WindowInner::paint: the window afterwards and, for each rectangle drained
\* from the queue in order, the rectangle copied and the buffer the paint
\* callback drew into
paint(self) ==
    LET window_dimensions == Rect(0, 0, self.width, self.height)
        q == IF self.paint_all THEN <<window_dimensions>> ELSE self.expose
    IN  IF ~self.paint_all /\ self.expose = <<>>
        THEN [self |-> self, painted |-> <<>>]
        ELSE [self |-> [self EXCEPT !.paint_all = FALSE,
                                    !.expose = <<>>,
                                    !.buffer_image = buffer_for_paint(self)],
              painted |-> [i \in 1..Len(q) |->
                             [rect |-> clip(q[i], self),
                              buffer |-> buffer_for_paint(self)]]]

\* WindowInner::expose
expose(self, x, y, width, height) ==
    LET e == Rect(x, y, width, height)
        n == Len(self.expose)
    IN  IF n > 0 /\ intersects_with(self.expose[n], e)
        THEN [self EXCEPT !.expose[n] = enclosing_boundary_with(self.expose[n], e)]
        ELSE [self EXCEPT !.expose = Append(@, e)]

\* (variant: the window is destroyed without asking the callback)
client_message_closes(atom, can_close) == atom = "WM_DELETE_WINDOW"

\* the CLIENT_MESSAGE arm: whether xcb::destroy_window is called
client_message(atom, can_close) == atom = "WM_DELETE_WINDOW" /\ can_close

\* Window::new_window: the WindowInner it builds
new_window(width, height) ==
    [created |-> TRUE,
     width |-> width,
     height |-> height,
     expose |-> <<>>,
     paint_all |-> TRUE,
     buffer_image |-> BufferImage_new(width, height)]

WindowId == "window_id"

\* the connection hands events and paint requests to registered windows
Registered == window.created /\ WindowId \in conn_windows

\* Window::new_window
NewWindow(size) ==
    /\ ~window.created
    /\ window' = new_window(size[1], size[2])
    /\ conn_windows' = conn_windows \cup {WindowId}
    /\ painted' = <<>>
    /\ wevent' = [op |-> "new_window"]
    /\ UNCHANGED <<destroy_requested, destroy_calls, rects, hit>>
    /\ UNCHANGED tmux_vars

\* dispatch_event, EXPOSE: the server exposes a region of the window
Expose(r) ==
    /\ Registered
    /\ r.x + r.width <= window.width
    /\ r.y + r.height <= window.height
    /\ LET w == expose(window, r.x, r.y, r.width, r.height)
       IN  /\ Len(w.expose) <= MaxQueue
           /\ window' = w
    /\ painted' = <<>>
    /\ wevent' = [op |-> "expose", rect |-> r]
    /\ UNCHANGED <<conn_windows, destroy_requested, destroy_calls, rects, hit>>
    /\ UNCHANGED tmux_vars

\* dispatch_event, CONFIGURE_NOTIFY
ConfigureNotify(size) ==
    /\ Registered
    /\ window' = [window EXCEPT !.width = size[1], !.height = size[2]]
    /\ painted' = <<>>
    /\ wevent' = [op |-> "configure_notify"]
    /\ UNCHANGED <<conn_windows, destroy_requested, destroy_calls, rects, hit>>
    /\ UNCHANGED tmux_vars

\* dispatch_event, KEY_PRESS .. BUTTON_RELEASE and unhandled events: the
\* callbacks are told, the window is not touched
InputEvent ==
    /\ Registered
    /\ painted' = <<>>
    /\ wevent' = [op |-> "input"]
    /\ UNCHANGED <<window, conn_windows, destroy_requested, destroy_calls, rects, hit>>
    /\ UNCHANGED tmux_vars

\* dispatch_event, CLIENT_MESSAGE; can_close is what the callback answers
ClientMessage(atom, can_close) ==
    /\ Registered
    /\ destroy_requested' = (destroy_requested \/ client_message(atom, can_close))
    /\ painted' = <<>>
    /\ wevent' = [op |-> "client_message", atom |-> atom, can_close |-> can_close]
    /\ UNCHANGED <<window, conn_windows, destroy_calls, rects, hit>>
    /\ UNCHANGED tmux_vars

\* dispatch_event, DESTROY_NOTIFY: the server has destroyed the window as
\* requested
DestroyNotify ==
    /\ Registered
    /\ destroy_requested
    /\ destroy_calls' = destroy_calls + 1
    /\ conn_windows' = conn_windows \ {WindowId}
    /\ painted' = <<>>
    /\ wevent' = [op |-> "destroy_notify"]
    /\ UNCHANGED <<window, destroy_requested, rects, hit>>
    /\ UNCHANGED tmux_vars

\* Window::paint_if_needed
Paint ==
    /\ Registered
    /\ LET r == paint(window)
       IN  /\ window' = r.self
           /\ painted' = r.painted
    /\ wevent' = [op |-> "paint", paint_all |-> window.paint_all,
                  queued |-> Len(window.expose)]
    /\ UNCHANGED <<conn_windows, destroy_requested, destroy_calls, rects, hit>>
    /\ UNCHANGED tmux_vars

\* intersects_with applied to the pair, each way round
IntersectsWith ==
    /\ rects # <<>>
    /\ hit' = [op |-> "intersects_with",
               ab |-> intersects_with(rects[1], rects[2]),
               ba |-> intersects_with(rects[2], rects[1])]
    /\ UNCHANGED <<window, conn_windows, destroy_requested, destroy_calls, painted,
                   wevent, rects>>
    /\ UNCHANGED tmux_vars

\* The window: created, then events and paint requests in any order.
InitWindow ==
    /\ InitState
    /\ tab_output = [t \in Tabs |-> <<>>]
    /\ NoWindowYet

NextWindow ==
    \/ \E size \in WindowSizes : NewWindow(size)
    \/ \E r \in ExposeRects : Expose(r)
    \/ \E size \in WindowSizes : ConfigureNotify(size)
    \/ InputEvent
    \/ \E atom \in Atoms, can_close \in BOOLEAN : ClientMessage(atom, can_close)
    \/ DestroyNotify
    \/ Paint

SpecWindow == InitWindow /\ [][NextWindow]_vars

\* Rect's overlap test on every pair of grid rectangles.
InitRect ==
    /\ InitState
    /\ tab_output = [t \in Tabs |-> <<>>]
    /\ window = NoWindow
    /\ conn_windows = {}
    /\ destroy_requested = FALSE
    /\ destroy_calls = 0
    /\ painted = <<>>
    /\ wevent = NoEvent
    /\ rects \in GridRects \X GridRects
    /\ hit = [op |-> "none"]

NextRect == IntersectsWith

SpecRect == InitRect /\ [][NextRect]_vars

\* ------------------------------------------------------------- reference
Range(s) == {s[i] : i \in 1..Len(s)}

LFPositions(bytes) == {i \in 1..Len(bytes) : bytes[i] = LF}

\* the position of the k-th line-feed of bytes
KthLF(bytes, k) ==
    CHOOSE p \in LFPositions(bytes) :
        Cardinality({q \in LFPositions(bytes) : q <= p}) = k

\* the bytes between the (k-1)-th and the k-th line-feed
RawLine(bytes, k) ==
    LET from == IF k = 1 THEN 1 ELSE KthLF(bytes, k - 1) + 1
    IN  SubSeq(bytes, from, KthLF(bytes, k) - 1)

\* a raw line less one trailing carriage-return, decoded
RefLine(raw) ==
    LET n == Len(raw)
    IN  from_utf8_lossy(SubSeq(raw, 1, IF n > 0 /\ raw[n] = CR THEN n - 1 ELSE n))

\* the reference splitter: one line per line-feed
RefLines(bytes) ==
    [k \in 1..Cardinality(LFPositions(bytes)) |-> RefLine(RawLine(bytes, k))]

\* the bytes after the last line-feed
RefRest(bytes) ==
    LET last == IF LFPositions(bytes) = {} THEN 0
                ELSE KthLF(bytes, Cardinality(LFPositions(bytes)))
    IN  SubSeq(bytes, last + 1, Len(bytes))

MatchingLines(t) == {i \in 1..Len(lines[t]) : starts_with(lines[t][i], EndPrefix)}

\* ----------------------------------------------------------------- claims

\* C1: for any bytes fed to one controller the window-listing command is
\* scheduled at most once: it has been scheduled exactly when a line starting
\* with "%end " has completed, which is exactly when the controller is
\* Running, and every scheduled command is the window listing; a second
\* "%end 1 0 0" line, received while Running, schedules nothing.
C1_ScheduledOnce ==
    /\ \A t \in Constructed :
        /\ scheduled[t] <= 1
        /\ (scheduled[t] = 1) <=> (MatchingLines(t) # {})
        /\ (scheduled[t] = 1) <=> (domains[t].state = "Running")
    /\ \A t \in Tabs \ Constructed : scheduled[t] = 0
    /\ \A i \in 1..Len(queue) : queue[i].cmd = ListWindows
    /\ Len(queue) <= Cardinality({t \in Tabs : scheduled[t] = 1})

C1_Witness ==
    \E t \in Constructed :
        /\ lines[t] = <<TokEnd100, TokEnd100>>
        /\ fed[t] = TokEnd100 \o <<LF>> \o TokEnd100 \o <<LF>>
        /\ scheduled[t] = 1
        /\ domains[t].state = "Running"

\* C2: a controller is constructed WaitingForFirstResponse, and once it is
\* Running no step (a byte to advance(), a Domain trait call, the executor,
\* the registry) takes it back to WaitingForFirstResponse.
C2_Monotonic ==
    [][\A t \in Tabs :
        /\ (t \notin DOMAIN domains /\ t \in DOMAIN domains')
              => domains'[t].state = "WaitingForFirstResponse"
        /\ (t \in DOMAIN domains /\ domains[t].state = "Running")
              => (t \in DOMAIN domains' /\ domains'[t].state = "Running")]_vars

C2_Witness ==
    \E t \in Constructed :
        /\ domains[t].state = "Running"
        /\ fed[t] = Handshake
        /\ ret.op = "detach"
        /\ ret.tab = t

\* C3: every spawn() and detach() call returns its error and every attach()
\* call returns Ok, in either protocol state, and the call changes nothing:
\* not the controller (id, line buffer, protocol state), not the DomainState
\* it reports, not anything else.
C3_UnsupportedOps ==
    [][(ret'.op \in {"spawn", "detach", "attach"})
         => /\ domains' = domains
            /\ UNCHANGED Unrelated
            /\ UNCHANGED window_vars
            /\ ret'.tab \in DOMAIN domains
            /\ state(domains'[ret'.tab]) = state(domains[ret'.tab])
            /\ ret'.op = "spawn" => ret'.res = "Err: spawn not impl for TmuxDomain"
            /\ ret'.op = "detach" => ret'.res = "Err: detach not impl for TmuxDomain"
            /\ ret'.op = "attach" => ret'.res = "Ok"]_vars

C3_Witness ==
    /\ ret.op = "spawn"
    /\ ret.res = "Err: spawn not impl for TmuxDomain"
    /\ domains[ret.tab].state = "Running"
    /\ domains[ret.tab].line_buffer # <<>>

\* C4: state() reports Attached for every constructed controller in every
\* reachable state, and every state() call returned Attached.
C4_AlwaysAttached ==
    /\ \A t \in Constructed : state(domains[t]) = "Attached"
    /\ ret.op = "state" => ret.res = "Attached"

C4_Witness ==
    /\ ret.op = "state"
    /\ ret.res = "Attached"
    /\ domains[ret.tab].state = "WaitingForFirstResponse"
    /\ domains[ret.tab].line_buffer # <<>>

\* C5: the ids of two constructed controllers differ, every id handed out is
\* below the counter (so no later construction gets it again), domain_id()
\* returns the controller's id, and no step changes a constructed
\* controller's id.
C5_IdsDistinct ==
    /\ \A t \in Constructed : \A u \in Constructed :
          t # u => domains[t].id # domains[u].id
    /\ \A t \in Constructed : domains[t].id \in 0..(next_domain_id - 1)
    /\ ret.op = "domain_id" => ret.id = domains[ret.tab].id

C5_DomainIds ==
    /\ []C5_IdsDistinct
    /\ [][\A t \in DOMAIN domains :
            t \in DOMAIN domains' /\ domains'[t].id = domains[t].id]_vars

C5_Witness ==
    /\ Cardinality(Constructed) = 2
    /\ ret.op = "domain_id"
    /\ ret.id = 1
    /\ domains[ret.tab].state = "Running"

\* C6: between calls of advance() the line buffer holds no line-feed, it is
\* empty right after a line-feed was fed, and it is cleared at no other
\* time: it holds exactly the bytes fed since the last line-feed.
C6_LineBufferNoLF ==
    \A t \in Constructed :
        /\ LF \notin Range(domains[t].line_buffer)
        /\ (fed[t] # <<>> /\ Last(fed[t]) = LF) => domains[t].line_buffer = <<>>
        /\ Len(domains[t].line_buffer) =
              Len(fed[t]) - (IF LFPositions(fed[t]) = {} THEN 0
                             ELSE KthLF(fed[t], Cardinality(LFPositions(fed[t]))))

C6_Witness ==
    \E t \in Constructed :
        /\ Cardinality(LFPositions(fed[t])) = 2
        /\ Last(fed[t]) = LF
        /\ fed[t][1] # LF
        /\ domains[t].line_buffer = <<>>

\* C7: the lines advance() has decoded are those of the reference splitter
\* on the bytes fed: one line per line-feed, holding the bytes since the
\* previous line-feed less one trailing carriage-return; the bytes after the
\* last line-feed are in the line buffer and have produced no line.
C7_MatchesSplitter ==
    \A t \in Constructed :
        /\ lines[t] = RefLines(fed[t])
        /\ domains[t].line_buffer = RefRest(fed[t])

C7_Witness ==
    \E t \in Constructed :
        /\ fed[t] = TokAbc \o <<CR, CR, LF>>
        /\ lines[t] = <<TokAbc \o <<CR>>>>

\* C8: when the executor runs a deferred command whose registry or tab no
\* longer resolves, that command alone is dropped: the main thread does not
\* panic, and the controllers, what they were fed and decoded, the tabs'
\* writers and the commands queued behind it stay as they were.
C8_CommandDropped ==
    [][(/\ queue # <<>>
        /\ command_outcome(Head(queue), mux) # "write"
        /\ queue' = Tail(queue))
          => (~panicked' /\ UNCHANGED <<domains, fed, lines, writes>>)]_vars

\* C9: a command reaches the tab's writer only in a step of the executor, never
\* in the advance() call that scheduled it; that step feeds no byte and
\* touches no controller, and at that time the controller is Running and its
\* line buffer holds only bytes fed after the line that scheduled it.
C9_DeferredWrite ==
    [][/\ \A t \in Tabs :
            writes'[t] # writes[t]
              => /\ fed' = fed /\ lines' = lines /\ domains' = domains
                 /\ Len(queue') = Len(queue) - 1
                 /\ t \in DOMAIN domains
                 /\ domains[t].state = "Running"
                 /\ MatchingLines(t) # {}
                 /\ domains[t].line_buffer = RefRest(fed[t])
       /\ Len(queue') < Len(queue)
              => (fed' = fed /\ lines' = lines /\ domains' = domains)
       /\ Len(queue') > Len(queue)
              => (writes' = writes /\ Len(queue') = Len(queue) + 1)]_vars

C9_Witness ==
    \E t \in Constructed :
        /\ writes[t] = <<ListWindows>>
        /\ queue = <<>>
        /\ domains[t].state = "Running"
        /\ domains[t].line_buffer # <<>>

\* C10: once a Running controller has been fed "%begin 1 1 0\r\nok\r\n%end 1 1 0\r\n"
\* it has handed downstream exactly one reply block, tagged 1, with payload
\* <<"ok">>.
C10_ReplyBlock ==
    \A t \in Constructed :
        fed[t] = ReplyScenario
          => blocks[t] = <<[tag |-> 1, payload |-> <<TokOk>>]>>

\* the number of entries of s equal to v
Count(s, v) == Cardinality({i \in 1..Len(s) : s[i] = v})

\* C11: advance() takes any byte in any state: while the remote has a byte the
\* call is possible and the process has not panicked; every line-feed fed has
\* produced a decoded line, and a line fed with 0xFF in it is decoded with
\* U+FFFD in place of each such byte.  A line completed while Running (an end
\* marker and an error marker among them) leaves the controller Running and
\* schedules, queues and writes nothing.
C11_Total ==
    /\ ~panicked
    /\ \A t \in Constructed :
        /\ tab_output[t] # <<>> => ENABLED Advance(t)
        /\ Len(lines[t]) = Cardinality(LFPositions(fed[t]))
        /\ \A k \in 1..Len(lines[t]) :
              /\ 255 \notin Range(lines[t][k])
              /\ Count(lines[t][k], REPLACEMENT) >= Count(RawLine(fed[t], k), 255)

C11_NeverFails ==
    /\ []C11_Total
    /\ [][\A t \in DOMAIN domains :
            (domains[t].state = "Running" /\ fed'[t] # fed[t])
              => /\ domains'[t].state = "Running"
                 /\ scheduled' = scheduled
                 /\ queue' = queue
                 /\ writes' = writes
                 /\ blocks' = blocks]_vars

C11_Witness ==
    \E t \in Constructed :
        /\ fed[t] = LossyScenario
        /\ lines[t] = <<TokEnd100, <<REPLACEMENT, 97>>, TokError110, TokEnd110>>
        /\ domains[t].state = "Running"
        /\ scheduled[t] = 1

\* what the bytes fed determine: the protocol state and the number of commands
RefRunning(bytes) ==
    \E k \in 1..Cardinality(LFPositions(bytes)) :
        starts_with(RefLines(bytes)[k], EndPrefix)

\* C12: however the reader cut the bytes fed into chunks, the decoded lines,
\* the line buffer, the protocol state and the number of scheduled commands
\* are those the whole byte sequence determines.
C12_ChunkingIndependent ==
    \A t \in Constructed :
        /\ lines[t] = RefLines(fed[t])
        /\ domains[t].line_buffer = RefRest(fed[t])
        /\ domains[t].state = (IF RefRunning(fed[t]) THEN "Running"
                               ELSE "WaitingForFirstResponse")
        /\ scheduled[t] = (IF RefRunning(fed[t]) THEN 1 ELSE 0)

C12_Witness ==
    \E t \in Constructed :
        /\ chunk[t] = 3
        /\ fed[t] = SubSeq(ReplyScenario, 1, 12)
        /\ lines[t] = <<TokEnd100>>
        /\ domains[t].line_buffer = <<37>>
        /\ domains[t].state = "Running"

\* C13: once the listing reply naming window w1 has been fed, a local proxy
\* keyed by w1 exists, and once the empty listing reply after it has been
\* fed, that proxy is gone.
C13_ProxyLifecycle ==
    \A t \in Constructed :
        /\ fed[t] = ListingOne => proxies[t] = {TokW1}
        /\ fed[t] = ListingScenario => proxies[t] = {}

\* C14: a line completed while WaitingForFirstResponse that does not start
\* with "%end " changes nothing but the line buffer, which is cleared: the
\* controller stays WaitingForFirstResponse and nothing is scheduled, queued,
\* written or handed on.
C14_Discarded ==
    [][\A t \in DOMAIN domains :
         (/\ fed'[t] = Append(fed[t], LF)
          /\ domains[t].state = "WaitingForFirstResponse"
          /\ ~starts_with(RefLine(domains[t].line_buffer), EndPrefix))
           => /\ domains' = [domains EXCEPT ![t].line_buffer = <<>>]
              /\ UNCHANGED <<scheduled, queue, writes, blocks, proxies,
                             next_domain_id, mux, panicked>>]_vars

C14_Witness ==
    \E t \in Constructed :
        /\ lines[t] = <<TokBegin110, TokError110>>
        /\ domains[t].line_buffer = <<>>
        /\ domains[t].state = "WaitingForFirstResponse"
        /\ scheduled[t] = 0

\* the reference overlap test: the closed ranges [x, x + width] of the two
\* overlap and the closed ranges [y, y + height] overlap
Overlaps(a, b) ==
    /\ Max(a.x, b.x) <= Min(a.x + a.width, b.x + b.width)
    /\ Max(a.y, b.y) <= Min(a.y + a.height, b.y + b.height)

\* rectangle outer covers rectangle inner
Contains(outer, inner) ==
    /\ outer.x <= inner.x
    /\ outer.y <= inner.y
    /\ inner.x + inner.width <= outer.x + outer.width
    /\ inner.y + inner.height <= outer.y + outer.height

\* C15: an exposure that intersects the last rectangle of the queue replaces
\* that rectangle by one covering both and leaves the queue's length and its
\* earlier entries as they were; an exposure that does not (or that finds the
\* queue empty) is appended and the queue before it is unchanged.
C15_Coalesce ==
    [][(wevent'.op = "expose")
        => LET q == window.expose
               n == Len(q)
               r == wevent'.rect
           IN  IF n > 0 /\ Overlaps(q[n], r)
               THEN /\ Len(window'.expose) = n
                    /\ SubSeq(window'.expose, 1, n - 1) = SubSeq(q, 1, n - 1)
                    /\ Contains(window'.expose[n], q[n])
                    /\ Contains(window'.expose[n], r)
               ELSE window'.expose = Append(q, r)]_vars

\* C16: every rectangle paint() copies lies inside the window as it is at
\* that paint: x + width is at most the window's width and y + height at most
\* its height.
C16_Clipped ==
    \A i \in 1..Len(painted) :
        /\ painted[i].rect.x + painted[i].rect.width <= window.width
        /\ painted[i].rect.y + painted[i].rect.height <= window.height

\* C17: at every call of the paint callback the buffer it draws into has the
\* window's current width and height, and that buffer is the window's buffer
\* after the paint.
C17_BufferMatches ==
    \A i \in 1..Len(painted) :
        /\ painted[i].buffer = [width |-> window.width, height |-> window.height]
        /\ painted[i].buffer = window.buffer_image

C17_Witness ==
    /\ wevent.op = "paint"
    /\ Len(painted) = 2
    /\ painted[1].rect.x = 2
    /\ window.width = 1
    /\ window.buffer_image = [width |-> 1, height |-> 3]

\* C18: intersects_with answers as the reference overlap test does for every
\* pair of grid rectangles, and answers the same with the pair swapped.
C18_IntersectsRef ==
    hit.op = "intersects_with"
      => /\ hit.ab = Overlaps(rects[1], rects[2])
         /\ hit.ab = hit.ba

\* C19: after paint() the exposure queue is empty and paint_all is false; if
\* paint_all was set when it was called, exactly one rectangle was painted,
\* the full window, whatever was queued; if paint_all was clear and the queue
\* empty, the paint callback was not called and the window is as it was.
C19_AfterPaint ==
    wevent.op = "paint"
      => /\ window.expose = <<>>
         /\ ~window.paint_all
         /\ wevent.paint_all
              => /\ Len(painted) = 1
                 /\ painted[1].rect = Rect(0, 0, window.width, window.height)
         /\ (~wevent.paint_all /\ wevent.queued = 0) => painted = <<>>
         /\ ~wevent.paint_all => Len(painted) = wevent.queued

C19_Paint ==
    /\ []C19_AfterPaint
    /\ [][(wevent'.op = "paint" /\ ~window.paint_all /\ window.expose = <<>>)
            => /\ window' = window
               /\ UNCHANGED <<conn_windows, destroy_requested, destroy_calls>>]_vars

C19_Witness ==
    /\ wevent = [op |-> "paint", paint_all |-> TRUE, queued |-> 2]
    /\ Len(painted) = 1
    /\ window.expose = <<>>

\* C20: a CLIENT_MESSAGE has xcb::destroy_window called only if it carries the
\* delete atom and can_close answered true; otherwise the window stays
\* registered and no destruction is requested.  A DESTROY_NOTIFY calls the
\* destroy callback once and takes the window out of the registry; the
\* callback is called at most once, and exactly when the window has left the
\* registry, which happens only after a destruction was requested.
C20_Registry ==
    /\ destroy_calls <= 1
    /\ window.created => ((destroy_calls = 1) <=> (WindowId \notin conn_windows))
    /\ destroy_calls = 1 => destroy_requested

C20_CloseProtocol ==
    /\ []C20_Registry
    /\ [][/\ (wevent'.op = "client_message")
               => /\ UNCHANGED <<conn_windows, destroy_calls, window>>
                  /\ destroy_requested'
                       = (destroy_requested
                            \/ (wevent'.atom = "WM_DELETE_WINDOW" /\ wevent'.can_close))
          /\ (wevent'.op = "destroy_notify")
               => /\ destroy_calls' = destroy_calls + 1
                  /\ WindowId \in conn_windows
                  /\ WindowId \notin conn_windows'
          /\ (wevent'.op \notin {"client_message", "destroy_notify", "new_window"})
               => UNCHANGED <<conn_windows, destroy_calls, destroy_requested>>]_vars

C20_Witness ==
    /\ wevent.op = "destroy_notify"
    /\ destroy_calls = 1
    /\ conn_windows = {}
    /\ window.created

====
